---- MODULE Spec2Model ----
(***************************************************************************)
(* A model of the timing and note-mapping engine of CH2BSMapConverter      *)
(* (src/src/converter.py): the tempo-map builder, the tick -> seconds ->   *)
(* beats conversion, the note finalizer and the difficulty selection of    *)
(* Converter.convert_to_beatsaber.                                         *)
(*                                                                         *)
(* Python floats are modelled as exact rationals.  Elapsed seconds are a   *)
(* fraction num/den whose denominator is ticks_per_beat * 10^6, because    *)
(* every term the code adds is (ticks / ticks_per_beat) * (tempo / 10^6).  *)
(***************************************************************************)
EXTENDS Integers, Sequences, FiniteSets, TLC

VARIABLES
    pc,                \* position of the modelled call
    mid,               \* the MIDI file: a sequence of tracks of messages
    tempo_map,         \* list of <<absolute_tick, tempo_us_per_beat>>
    ticks_per_beat,    \* mid.ticks_per_beat (ppqn)
    tick,              \* the absolute tick handed to _ticks_to_seconds
    seconds,           \* time_in_seconds, a fraction [num, den]
    time_beats,        \* _time_beats, a fraction [num, den]
    all_raw_bs_notes,  \* the candidate notes, input of the note finalizer
    final_bs_notes,    \* the list _map_notes_to_beatsaber_format returned
    final_bs_notes_again, \* what it returned for its own output read back
    difficulties,      \* metadata.difficulties: <<key, number>> items in dict order
    difficulty_mapping, \* config.difficulty_mapping: string key -> tier name
    difficulties_to_generate, \* the set of tier names of step 5
    remaining,         \* the sorted tiers the loop of step 7 has yet to take
    cover_filename,    \* "cover.jpg" or ""
    info_dat_content,  \* the info.dat structure being built
    written,           \* the files written to the output directory, in order
    made_dir,          \* whether the song's output directory was created
    warnings,          \* the records logged with logger.warning
    errors,            \* the kinds of the records logged with logger.error
    result,            \* what convert_to_beatsaber returned: "none" while it runs
    selected_zip_paths, \* the ZIP files selected in the window, in order
    zip_i,             \* i, the index of the for loop of AppUI._run_conversion
    metadata,          \* whether the extractor returned a metadata object
    successful_conversions, \* the counter of AppUI._run_conversion
    processed,         \* per package taken by the loop: what became of it
    final_status_message, \* the counts of the final message, <<>> before it
    output_directory,  \* config.output_directory, the setting
    song_output_dir,   \* the directory convert_audio computed, 0 before it
    bs_map_output_dir, \* the directory convert_to_beatsaber computed, 0 before it
    start_button,      \* the state of the start button: "normal" or "disabled"
    workers,           \* the number of conversion threads that are alive
    no_files_warning   \* whether the "No Files" warning was shown

timeVars == <<mid, tempo_map, ticks_per_beat, tick, seconds, time_beats>>

noteVars == <<all_raw_bs_notes, final_bs_notes, final_bs_notes_again>>

convVars == <<difficulties, difficulty_mapping, difficulties_to_generate, remaining,
              cover_filename, info_dat_content, written, made_dir, warnings, errors, result>>

batchVars == <<selected_zip_paths, zip_i, metadata, successful_conversions, processed,
               final_status_message>>

dirVars == <<output_directory, song_output_dir, bs_map_output_dir>>

uiVars == <<start_button, workers, no_files_warning>>

appVars == <<dirVars, uiVars>>

vars == <<pc, timeVars, noteVars, convVars, batchVars, appVars>>

----------------------------------------------------------------------------
(* Bounds of the model *)

MaxTracks == 2     \* tracks of a generated event stream
MaxEvents == 3     \* messages of a generated event stream, over all tracks
MaxDelta == 1      \* largest relative delta time of a generated message
MaxMapLen == 3     \* entries of a generated valid tempo map
MaxTick == 4       \* largest small tick (the scenario ticks are added)
MaxPPQN == 2       \* largest small ticks_per_beat (480 is added)
MaxNotes == 3      \* candidates of a generated candidate list
MaxTime == 4       \* largest raw beat time of a generated candidate, in grid steps
SubSteps == 3      \* grid steps of raw beat time per 0.001 beat
MaxZips == 3       \* ZIP files of a generated selection

(* Program constants *)

DefaultTempo == 500000

\* Tempo values of generated set_tempo messages: 120, 180 and 240 BPM.
Tempos == {DefaultTempo, 333333, 250000}

NoFraction == [num |-> 0, den |-> 1]

\* The note variables of a run that maps no notes
NoNotes ==
    /\ all_raw_bs_notes = <<>>
    /\ final_bs_notes = <<>>
    /\ final_bs_notes_again = <<>>

\* The variables of convert_to_beatsaber in a run of one of its helpers
NoConversion ==
    /\ difficulties = <<>>
    /\ difficulty_mapping = <<>>
    /\ difficulties_to_generate = {}
    /\ remaining = <<>>
    /\ cover_filename = ""
    /\ info_dat_content = <<>>
    /\ written = <<>>
    /\ made_dir = FALSE
    /\ warnings = <<>>
    /\ errors = <<>>
    /\ result = "none"

\* The variables of AppUI._run_conversion in a run of the converter alone
NoBatch ==
    /\ selected_zip_paths = <<>>
    /\ zip_i = 0
    /\ metadata = FALSE
    /\ successful_conversions = 0
    /\ processed = <<>>
    /\ final_status_message = <<>>

\* The timing variables of a run that reads no event stream
\* The output directories a user can choose; 1 is the configured one
MaxDirs == 2

Dirs == 1..MaxDirs

\* The setting as configured, no directory computed yet
NoDirs ==
    /\ output_directory = 1
    /\ song_output_dir = 0
    /\ bs_map_output_dir = 0

\* The window in a run of a part of the converter: no thread, no request
NoApp ==
    /\ NoDirs
    /\ start_button = "normal"
    /\ workers = 0
    /\ no_files_warning = FALSE

NoTiming ==
    /\ mid = <<>>
    /\ tempo_map = <<>>
    /\ ticks_per_beat = 1
    /\ tick = 0
    /\ seconds = NoFraction
    /\ time_beats = NoFraction

----------------------------------------------------------------------------
(* Helpers on sequences *)

Last(s) == s[Len(s)]

RECURSIVE Concat(_)
Concat(ss) == IF ss = <<>> THEN <<>> ELSE Head(ss) \o Concat(Tail(ss))

\* list.sort(key=lambda x: x[0]) / sorted(..., key=lambda x: x[0]):
\* Python's sort is stable, so an element goes after every element whose
\* key is not larger.
RECURSIVE InsertByTick(_, _)
InsertByTick(sorted, e) ==
    IF sorted = <<>> THEN <<e>>
    ELSE IF Head(sorted)[1] <= e[1]
         THEN <<Head(sorted)>> \o InsertByTick(Tail(sorted), e)
         ELSE <<e>> \o sorted

RECURSIVE SortByTick(_)
SortByTick(s) ==
    IF s = <<>> THEN <<>>
    ELSE InsertByTick(SortByTick(SubSeq(s, 1, Len(s) - 1)), Last(s))

----------------------------------------------------------------------------
(* The event stream *)

SetTempo(delta, tempo) ==
    [time |-> delta, type |-> "set_tempo", tempo |-> tempo, note |-> 0, velocity |-> 0]

OtherMsg(delta) ==
    [time |-> delta, type |-> "other", tempo |-> 0, note |-> 0, velocity |-> 0]

TempoMessages ==
    {SetTempo(d, t) : d \in 0..MaxDelta, t \in Tempos}
        \cup {OtherMsg(d) : d \in 0..MaxDelta}

RECURSIVE SeqsUpTo(_, _)
SeqsUpTo(S, n) ==
    IF n = 0 THEN {<<>>}
    ELSE LET shorter == SeqsUpTo(S, n - 1)
         IN  shorter \cup {Append(s, x) : s \in {t \in shorter : Len(t) = n - 1}, x \in S}

\* Every way of cutting a message sequence into n consecutive tracks
RECURSIVE Splits(_, _)
Splits(flat, n) ==
    IF n = 0 THEN (IF flat = <<>> THEN {<<>>} ELSE {})
    ELSE UNION {{<<SubSeq(flat, 1, k)>> \o rest :
                    rest \in Splits(SubSeq(flat, k + 1, Len(flat)), n - 1)} :
                k \in 0..Len(flat)}

\* mid is a stream of at most MaxTracks tracks holding at most MaxEvents
\* of the given messages.
IsStreamOf(Messages) ==
    \E flat \in SeqsUpTo(Messages, MaxEvents) :
        \E n \in 0..MaxTracks : mid \in Splits(flat, n)

\* abs_track_tick after the i-th message of a track
RECURSIVE AbsTick(_, _)
AbsTick(track, i) == IF i = 0 THEN 0 ELSE AbsTick(track, i - 1) + track[i].time

----------------------------------------------------------------------------
(* Converter._get_tempo_map *)

RECURSIVE TrackTempoEventsFrom(_, _)
TrackTempoEventsFrom(track, i) ==
    IF i > Len(track) THEN <<>>
    ELSE (IF track[i].type = "set_tempo"
          THEN <<<<AbsTick(track, i), track[i].tempo>>>>
          ELSE <<>>) \o TrackTempoEventsFrom(track, i + 1)

TrackTempoEvents(track) == TrackTempoEventsFrom(track, 1)

AllTempoEvents(m) == Concat([i \in 1..Len(m) |-> TrackTempoEvents(m[i])])

\* The test of line 182 against the first entry of the map, not the last
KeepEventFirstEntry(tm, e) == tm = <<>> \/ tm[1][2] # e[2] \/ e[1] = 0

KeepEvent(tm, e) == tm = <<>> \/ Last(tm)[2] # e[2] \/ e[1] = 0

RECURSIVE WalkTempoEvents(_, _)
WalkTempoEvents(tm, events) ==
    IF events = <<>> THEN tm
    ELSE WalkTempoEvents(IF KeepEvent(tm, Head(events)) THEN Append(tm, Head(events)) ELSE tm,
                         Tail(events))

TickZeroFirst(tm) ==
    SelectSeq(tm, LAMBDA t : t[1] = 0) \o SelectSeq(tm, LAMBDA t : t[1] > 0)

SeenTicks(unique) == {unique[i][1] : i \in 1..Len(unique)}

\* UniqueStep without the seen_ticks test: every item is appended.
UniqueStepNoSeenTicks(unique, item) == Append(unique, item)

UniqueStep(unique, item) ==
    IF item[1] \notin SeenTicks(unique) THEN Append(unique, item)
    ELSE IF item[1] = 0 /\ unique[1][2] # item[2]
         THEN [unique EXCEPT ![1] = item]
         ELSE unique

RECURSIVE UniqueByTick(_, _)
UniqueByTick(unique, items) ==
    IF items = <<>> THEN unique
    ELSE UniqueByTick(UniqueStep(unique, Head(items)), Tail(items))

_get_tempo_map(m) ==
    LET initial == <<<<0, DefaultTempo>>>>
        all_tempo_events == SortByTick(AllTempoEvents(m))
        walked == WalkTempoEvents(initial, all_tempo_events)
        tempo_map_final == TickZeroFirst(walked)
        unique_tempo_map == UniqueByTick(<<>>, tempo_map_final)
    IN  SortByTick(unique_tempo_map)

----------------------------------------------------------------------------
(* Specification of the tempo-map builder: every bounded event stream *)

InitTempo ==
    /\ pc = "start"
    /\ IsStreamOf(TempoMessages)
    /\ tempo_map = <<>>
    /\ ticks_per_beat = 1
    /\ tick = 0
    /\ seconds = NoFraction
    /\ time_beats = NoFraction
    /\ NoNotes
    /\ NoConversion
    /\ NoBatch
    /\ NoApp

GetTempoMap ==
    /\ pc = "start"
    /\ tempo_map' = _get_tempo_map(mid)
    /\ pc' = "tempo_map"
    /\ UNCHANGED <<mid, ticks_per_beat, tick, seconds, time_beats, noteVars, convVars, batchVars, appVars>>

NextTempo == GetTempoMap

SpecTempo == InitTempo /\ [][NextTempo]_vars

----------------------------------------------------------------------------
(* Exact fractions standing for Python floats *)

RECURSIVE GCD(_, _)
GCD(a, b) == IF b = 0 THEN a ELSE GCD(b, a % b)

\* a * b, cancelling b's numerator against a's denominator before
\* multiplying
FracMul(a, b) ==
    LET g == GCD(b.num, a.den)
    IN  [num |-> a.num * (b.num \div g), den |-> (a.den \div g) * b.den]

\* a <= b
FracLeq(a, b) ==
    IF a.den = b.den THEN a.num <= b.num ELSE a.num * b.den <= b.num * a.den

\* a / k, cancelling before multiplying
FracDivInt(a, k) ==
    LET g == GCD(a.num, k)
    IN  [num |-> a.num \div g, den |-> a.den * (k \div g)]

\* <<floor(n * 10^k / d), n * 10^k mod d>> by long division
RECURSIVE LongDiv(_, _, _)
LongDiv(n, d, k) ==
    IF k = 0 THEN <<n \div d, n % d>>
    ELSE LET p == LongDiv(n, d, k - 1)
         IN  <<p[1] * 10 + (p[2] * 10) \div d, (p[2] * 10) % d>>

\* floor(a * 10^k): a cut to k decimals
FloorDecimals(a, k) ==
    LET g == GCD(a.num, a.den)
    IN  IF a.num = 0 THEN 0 ELSE LongDiv(a.num \div g, a.den \div g, k)[1]

----------------------------------------------------------------------------
(* Converter._ticks_to_seconds *)

\* (ticks_in_segment / ticks_per_beat) * (tempo / 1_000_000.0), as the
\* numerator over ticks_per_beat * 10^6
SegmentNum(ticks_in_segment, tempo_us_per_beat) == ticks_in_segment * tempo_us_per_beat

\* The for loop over tempo_map from entry i on, with the loop's locals.
RECURSIVE TicksLoop(_, _, _, _, _, _)
TicksLoop(t, tm, i, current, last_tick_in_map, last_tempo) ==
    IF i > Len(tm)
    THEN current + SegmentNum(t - last_tick_in_map, last_tempo)
    ELSE IF t < tm[i][1]
         THEN current + SegmentNum(t - last_tick_in_map, last_tempo)
         ELSE TicksLoop(t, tm, i + 1,
                        current + SegmentNum(tm[i][1] - last_tick_in_map, last_tempo),
                        tm[i][1], tm[i][2])

\* The loop without "if tick < map_tick_boundary: ... return": every entry
\* is taken as a full segment.
RECURSIVE TicksLoopNoReturn(_, _, _, _, _, _)
TicksLoopNoReturn(t, tm, i, current, last_tick_in_map, last_tempo) ==
    IF i > Len(tm)
    THEN current + SegmentNum(t - last_tick_in_map, last_tempo)
    ELSE TicksLoopNoReturn(t, tm, i + 1,
                           current + SegmentNum(tm[i][1] - last_tick_in_map, last_tempo),
                           tm[i][1], tm[i][2])

_ticks_to_seconds_no_return(t, tm, tpb) ==
    [num |-> TicksLoopNoReturn(t, tm, 1, 0, 0, tm[1][2]), den |-> tpb * 1000000]

\* The loop with "current_seconds =" for "current_seconds +=" in the branch
\* that returns: the segments before the tick's own are forgotten.
RECURSIVE TicksLoopNoSum(_, _, _, _, _)
TicksLoopNoSum(t, tm, i, last_tick_in_map, last_tempo) ==
    IF i > Len(tm) \/ t < tm[i][1]
    THEN SegmentNum(t - last_tick_in_map, last_tempo)
    ELSE TicksLoopNoSum(t, tm, i + 1, tm[i][1], tm[i][2])

_ticks_to_seconds_no_sum(t, tm, tpb) ==
    [num |-> TicksLoopNoSum(t, tm, 1, 0, tm[1][2]), den |-> tpb * 1000000]

\* The loop charging a segment with the tempo of the entry that ends it.
RECURSIVE TicksLoopNextTempo(_, _, _, _, _, _)
TicksLoopNextTempo(t, tm, i, current, last_tick_in_map, last_tempo) ==
    IF i > Len(tm)
    THEN current + SegmentNum(t - last_tick_in_map, last_tempo)
    ELSE IF t < tm[i][1]
         THEN current + SegmentNum(t - last_tick_in_map, tm[i][2])
         ELSE TicksLoopNextTempo(t, tm, i + 1,
                                 current + SegmentNum(tm[i][1] - last_tick_in_map, tm[i][2]),
                                 tm[i][1], tm[i][2])

_ticks_to_seconds_next_tempo(t, tm, tpb) ==
    [num |-> TicksLoopNextTempo(t, tm, 1, 0, 0, tm[1][2]), den |-> tpb * 1000000]

_ticks_to_seconds(t, tm, tpb) ==
    [num |-> TicksLoop(t, tm, 1, 0, 0, tm[1][2]), den |-> tpb * 1000000]

----------------------------------------------------------------------------
(* Converter._get_dominant_bpm and the beat time of _parse_midi_notes *)

\* mido.tempo2bpm: 60 * 10^6 / tempo.  It is the third component of every
\* tempo-map entry, a function of the second.
tempo2bpm(tempo) == [num |-> 60000000, den |-> tempo]

\* _get_dominant_bpm reading the last entry of the tempo map for the first
_get_dominant_bpm_last(tm) ==
    IF tm = <<>> THEN [num |-> 120, den |-> 1] ELSE tempo2bpm(Last(tm)[2])

_get_dominant_bpm(tm) ==
    IF tm = <<>> THEN [num |-> 120, den |-> 1] ELSE tempo2bpm(tm[1][2])

\* The tempo of the last tempo-map entry at or before absolute tick t
RECURSIVE TempoInEffect(_, _, _)
TempoInEffect(tm, t, k) ==
    IF k < Len(tm) /\ tm[k + 1][1] <= t THEN TempoInEffect(tm, t, k + 1) ELSE tm[k][2]

\* The beat time computed with the BPM in effect at the note's own tick
\* for the dominant BPM
TimeBeatsLocalTempo(time_in_seconds, dominant_bpm) ==
    FracMul(time_in_seconds, FracDivInt(tempo2bpm(TempoInEffect(tempo_map, tick, 1)), 60))

\* _time_beats = time_in_seconds * (dominant_bpm / 60.0)
TimeBeats(time_in_seconds, dominant_bpm) ==
    FracMul(time_in_seconds, FracDivInt(dominant_bpm, 60))

----------------------------------------------------------------------------
(* Specification of the time converter: every bounded valid tempo map *)

TimeTicks == 0..MaxTick \cup {240, 480, 720}

PPQNs == 1..MaxPPQN \cup {480}

\* The tempo maps of exactly n entries: first tick 0, ticks strictly
\* increasing, positive tempos.
RECURSIVE TempoMapsOfLen(_)
TempoMapsOfLen(n) ==
    IF n = 1 THEN {<<<<0, tempo>>>> : tempo \in Tempos}
    ELSE UNION {{Append(tm, <<t, tempo>>) : t \in {u \in TimeTicks : u > Last(tm)[1]},
                                           tempo \in Tempos} :
                tm \in TempoMapsOfLen(n - 1)}

InitTime ==
    /\ pc = "start"
    /\ mid = <<>>
    /\ \E n \in 1..MaxMapLen : tempo_map \in TempoMapsOfLen(n)
    /\ ticks_per_beat \in PPQNs
    /\ tick \in TimeTicks
    /\ seconds = NoFraction
    /\ time_beats = NoFraction
    /\ NoNotes
    /\ NoConversion
    /\ NoBatch
    /\ NoApp

\* _parse_midi_notes, lines 275-276, for an event at absolute tick `tick`
PlaceNote ==
    /\ pc = "start"
    /\ seconds' = _ticks_to_seconds(tick, tempo_map, ticks_per_beat)
    /\ time_beats' = TimeBeats(seconds', _get_dominant_bpm(tempo_map))
    /\ pc' = "placed"
    /\ UNCHANGED <<mid, tempo_map, ticks_per_beat, tick, noteVars, convVars, batchVars, appVars>>

NextTime == PlaceNote

SpecTime == InitTime /\ [][NextTime]_vars

----------------------------------------------------------------------------
(* CH_TO_BS_NOTE_MAP *)

Mapping(lineIndex, lineLayer, type_hint) ==
    [_lineIndex |-> lineIndex, _lineLayer |-> lineLayer, _type_hint |-> type_hint]

\* The table with note 48 on the lane and layer of note 64 but on side 0
CH_TO_BS_NOTE_MAP_side_per_note ==
    (60 :> Mapping(0, 1, 0)) @@ (61 :> Mapping(1, 1, 0)) @@
    (62 :> Mapping(2, 1, 1)) @@ (63 :> Mapping(3, 1, 1)) @@
    (64 :> Mapping(2, 2, 1)) @@
    (36 :> Mapping(0, 0, 0)) @@ (38 :> Mapping(1, 0, 0)) @@
    (40 :> Mapping(1, 2, 0)) @@ (42 :> Mapping(2, 0, 1)) @@
    (46 :> Mapping(3, 0, 1)) @@ (48 :> Mapping(2, 2, 0)) @@
    (50 :> Mapping(3, 2, 1))

CH_TO_BS_NOTE_MAP ==
    (60 :> Mapping(0, 1, 0)) @@ (61 :> Mapping(1, 1, 0)) @@
    (62 :> Mapping(2, 1, 1)) @@ (63 :> Mapping(3, 1, 1)) @@
    (64 :> Mapping(2, 2, 1)) @@
    (36 :> Mapping(0, 0, 0)) @@ (38 :> Mapping(1, 0, 0)) @@
    (40 :> Mapping(1, 2, 0)) @@ (42 :> Mapping(2, 0, 1)) @@
    (46 :> Mapping(3, 0, 1)) @@ (48 :> Mapping(2, 2, 1)) @@
    (50 :> Mapping(3, 2, 1))

\* The dict _parse_midi_notes appends for a mapped note (lines 278-284).
\* _time_raw_beats is a fraction [num, den] of a beat.
RawNote(time_raw_beats, midi_note) ==
    [_time_raw_beats |-> time_raw_beats,
     _midi_note |-> midi_note,
     _lineIndex |-> CH_TO_BS_NOTE_MAP[midi_note]._lineIndex,
     _lineLayer |-> CH_TO_BS_NOTE_MAP[midi_note]._lineLayer,
     _type_hint |-> CH_TO_BS_NOTE_MAP[midi_note]._type_hint]

----------------------------------------------------------------------------
(* Converter._map_notes_to_beatsaber_format *)

\* round(x, k): the nearest multiple of 10^-k, a tie going to the even one
\* (what Python does for a float that is exactly the tie); the result
\* counts multiples of 10^-k.
RoundDecimals(x, k) ==
    LET g == GCD(x.num, x.den)
        d == x.den \div g
        p == LongDiv(x.num \div g, d, k)
        q == p[1]
        r == p[2]
    IN  IF x.num = 0 THEN 0
        ELSE IF 2 * r < d THEN q
        ELSE IF 2 * r > d THEN q + 1
        ELSE IF q % 2 = 0 THEN q ELSE q + 1

\* round(raw_note["_time_raw_beats"], 3), in 0.001 beats
Round3(x) == RoundDecimals(x, 3)

\* note_position_key = (_time, _lineIndex, _lineLayer)
NotePositionKey(raw_note) ==
    <<Round3(raw_note._time_raw_beats), raw_note._lineIndex, raw_note._lineLayer>>

\* The key built from the time before it is rounded
NotePositionKeyRawTime(raw_note) ==
    <<raw_note._time_raw_beats, raw_note._lineIndex, raw_note._lineLayer>>

\* The key without the layer
NotePositionKeyNoLayer(raw_note) ==
    <<Round3(raw_note._time_raw_beats), raw_note._lineIndex>>

\* The dict appended to final_notes (lines 312-318)
FinalNote(raw_note) ==
    [_time |-> Round3(raw_note._time_raw_beats),
     _lineIndex |-> raw_note._lineIndex,
     _lineLayer |-> raw_note._lineLayer,
     _type |-> raw_note._type_hint,
     _cutDirection |-> 0]

\* The for loop over raw_bs_notes with its locals final_notes and
\* placed_notes_at_beat_pos
RECURSIVE MapNotesLoop(_, _, _)
MapNotesLoop(raw_bs_notes, final_notes, placed_notes_at_beat_pos) ==
    IF raw_bs_notes = <<>> THEN final_notes
    ELSE LET raw_note == Head(raw_bs_notes)
             note_position_key == NotePositionKey(raw_note)
         IN  IF note_position_key \in placed_notes_at_beat_pos
             THEN MapNotesLoop(Tail(raw_bs_notes), final_notes, placed_notes_at_beat_pos)
             ELSE MapNotesLoop(Tail(raw_bs_notes),
                               Append(final_notes, FinalNote(raw_note)),
                               placed_notes_at_beat_pos \cup {note_position_key})

\* The loop testing the key of the unrounded time
RECURSIVE MapNotesLoopRawTime(_, _, _)
MapNotesLoopRawTime(raw_bs_notes, final_notes, placed) ==
    IF raw_bs_notes = <<>> THEN final_notes
    ELSE LET raw_note == Head(raw_bs_notes)
             key == NotePositionKeyRawTime(raw_note)
         IN  IF key \in placed
             THEN MapNotesLoopRawTime(Tail(raw_bs_notes), final_notes, placed)
             ELSE MapNotesLoopRawTime(Tail(raw_bs_notes),
                                      Append(final_notes, FinalNote(raw_note)),
                                      placed \cup {key})

_map_notes_raw_time_key(raw_bs_notes) == MapNotesLoopRawTime(raw_bs_notes, <<>>, {})

\* The loop testing a key without the layer
RECURSIVE MapNotesLoopNoLayer(_, _, _)
MapNotesLoopNoLayer(raw_bs_notes, final_notes, placed) ==
    IF raw_bs_notes = <<>> THEN final_notes
    ELSE LET raw_note == Head(raw_bs_notes)
             key == NotePositionKeyNoLayer(raw_note)
         IN  IF key \in placed
             THEN MapNotesLoopNoLayer(Tail(raw_bs_notes), final_notes, placed)
             ELSE MapNotesLoopNoLayer(Tail(raw_bs_notes),
                                      Append(final_notes, FinalNote(raw_note)),
                                      placed \cup {key})

_map_notes_no_layer_key(raw_bs_notes) == MapNotesLoopNoLayer(raw_bs_notes, <<>>, {})

\* The loop with final_notes.insert(0, ...) for final_notes.append(...)
RECURSIVE MapNotesLoopPrepend(_, _, _)
MapNotesLoopPrepend(raw_bs_notes, final_notes, placed) ==
    IF raw_bs_notes = <<>> THEN final_notes
    ELSE LET raw_note == Head(raw_bs_notes)
             key == NotePositionKey(raw_note)
         IN  IF key \in placed
             THEN MapNotesLoopPrepend(Tail(raw_bs_notes), final_notes, placed)
             ELSE MapNotesLoopPrepend(Tail(raw_bs_notes),
                                      <<FinalNote(raw_note)>> \o final_notes,
                                      placed \cup {key})

_map_notes_prepend(raw_bs_notes) == MapNotesLoopPrepend(raw_bs_notes, <<>>, {})

\* The loop started with a placed_notes_at_beat_pos that outlives the call:
\* it still holds the keys of the notes the previous call returned
_map_notes_shared_positions(raw_bs_notes) ==
    MapNotesLoop(raw_bs_notes, <<>>,
                 {<<final_bs_notes[i]._time, final_bs_notes[i]._lineIndex,
                    final_bs_notes[i]._lineLayer>> : i \in 1..Len(final_bs_notes)})

_map_notes_to_beatsaber_format(raw_bs_notes) == MapNotesLoop(raw_bs_notes, <<>>, {})

----------------------------------------------------------------------------
(* Specification of the note finalizer: every bounded candidate list *)

\* Note identifiers of generated candidates: 64 and 48 share lane and layer,
\* 62 has their lane on another layer.
CandidateIds == {61, 62, 64, 48}

\* Raw beat times on a grid of SubSteps steps per 0.001 beat
RawTimes == {[num |-> t, den |-> 1000 * SubSteps] : t \in 0..MaxTime}

Candidates == {RawNote(t, n) : t \in RawTimes, n \in CandidateIds}

\* The candidate lists of n notes in ascending order of _time_raw_beats, as
\* _parse_midi_notes returns them (line 287)
RECURSIVE CandidateListsOfLen(_)
CandidateListsOfLen(n) ==
    IF n = 0 THEN {<<>>}
    ELSE UNION {{Append(l, c) : c \in {d \in Candidates :
                                         l = <<>> \/ FracLeq(Last(l)._time_raw_beats,
                                                              d._time_raw_beats)}} :
                l \in CandidateListsOfLen(n - 1)}

\* A final note read back as a candidate: same time, lane, layer and side.
\* The note identifier is not part of a final note.
ReadBack(final_note) ==
    [_time_raw_beats |-> [num |-> final_note._time, den |-> 1000],
     _midi_note |-> 0,
     _lineIndex |-> final_note._lineIndex,
     _lineLayer |-> final_note._lineLayer,
     _type_hint |-> final_note._type]

ReadBackAll(final_notes) == [i \in 1..Len(final_notes) |-> ReadBack(final_notes[i])]

InitFinal ==
    /\ pc = "start"
    /\ NoTiming
    /\ \E n \in 0..MaxNotes : all_raw_bs_notes \in CandidateListsOfLen(n)
    /\ final_bs_notes = <<>>
    /\ final_bs_notes_again = <<>>
    /\ NoConversion
    /\ NoBatch
    /\ NoApp

\* final_bs_notes = self._map_notes_to_beatsaber_format(all_raw_bs_notes)
MapNotes ==
    /\ pc = "start"
    /\ final_bs_notes' = _map_notes_to_beatsaber_format(all_raw_bs_notes)
    /\ pc' = "finalized"
    /\ UNCHANGED <<timeVars, all_raw_bs_notes, final_bs_notes_again, convVars, batchVars, appVars>>

\* The finalizer applied to the list it produced
MapNotesAgain ==
    /\ pc = "finalized"
    /\ final_bs_notes_again' = _map_notes_to_beatsaber_format(ReadBackAll(final_bs_notes))
    /\ pc' = "refinalized"
    /\ UNCHANGED <<timeVars, all_raw_bs_notes, final_bs_notes, convVars, batchVars, appVars>>

NextFinal == MapNotes \/ MapNotesAgain

SpecFinal == InitFinal /\ [][NextFinal]_vars

----------------------------------------------------------------------------
(* Converter._parse_midi_notes *)

NoteOn(delta, note, velocity) ==
    [time |-> delta, type |-> "note_on", tempo |-> 0, note |-> note, velocity |-> velocity]

NoteOff(delta, note) ==
    [time |-> delta, type |-> "note_off", tempo |-> 0, note |-> note, velocity |-> 0]

\* The inner loop without the test msg.velocity > 0
RECURSIVE TrackNotesFromAnyVelocity(_, _, _, _, _)
TrackNotesFromAnyVelocity(track, i, tm, tpb, dominant_bpm) ==
    IF i > Len(track) THEN <<>>
    ELSE (IF /\ track[i].type = "note_on"
             /\ track[i].note \in DOMAIN CH_TO_BS_NOTE_MAP
          THEN <<RawNote(TimeBeats(_ticks_to_seconds(AbsTick(track, i), tm, tpb),
                                   dominant_bpm),
                         track[i].note)>>
          ELSE <<>>) \o TrackNotesFromAnyVelocity(track, i + 1, tm, tpb, dominant_bpm)

\* The inner loop over the messages of one track, from message i on
RECURSIVE TrackNotesFrom(_, _, _, _, _)
TrackNotesFrom(track, i, tm, tpb, dominant_bpm) ==
    IF i > Len(track) THEN <<>>
    ELSE (IF /\ track[i].type = "note_on"
             /\ track[i].velocity > 0
             /\ track[i].note \in DOMAIN CH_TO_BS_NOTE_MAP
          THEN <<RawNote(TimeBeats(_ticks_to_seconds(AbsTick(track, i), tm, tpb),
                                   dominant_bpm),
                         track[i].note)>>
          ELSE <<>>) \o TrackNotesFrom(track, i + 1, tm, tpb, dominant_bpm)

\* The insertion of a sort that puts an element before its equals
RECURSIVE InsertBeforeEquals(_, _)
InsertBeforeEquals(sorted, e) ==
    IF sorted = <<>> THEN <<e>>
    ELSE IF FracLeq(e._time_raw_beats, Head(sorted)._time_raw_beats)
         THEN <<e>> \o sorted
         ELSE <<Head(sorted)>> \o InsertBeforeEquals(Tail(sorted), e)

\* all_raw_bs_notes.sort(key=lambda x: x["_time_raw_beats"]), a stable sort
RECURSIVE InsertByRawTime(_, _)
InsertByRawTime(sorted, e) ==
    IF sorted = <<>> THEN <<e>>
    ELSE IF FracLeq(Head(sorted)._time_raw_beats, e._time_raw_beats)
         THEN <<Head(sorted)>> \o InsertByRawTime(Tail(sorted), e)
         ELSE <<e>> \o sorted

\* No sort: the candidates stay in encounter order
NoSortByRawTime(s) == s

RECURSIVE SortByRawTime(_)
SortByRawTime(s) ==
    IF s = <<>> THEN <<>>
    ELSE InsertByRawTime(SortByRawTime(SubSeq(s, 1, Len(s) - 1)), Last(s))

\* The notes of a file that was read (line 258 did not raise)
_parse_midi_notes(m, tm, tpb, dominant_bpm) ==
    SortByRawTime(Concat([i \in 1..Len(m) |-> TrackNotesFrom(m[i], 1, tm, tpb, dominant_bpm)]))

----------------------------------------------------------------------------
(* Specification of the note mapper: every bounded stream of note messages *)

\* Two mapped identifiers on different lanes, an unmapped identifier, a
\* note_on of velocity 0, a note_off and a tempo change
NoteMessages ==
    {NoteOn(0, 60, 64), NoteOn(MaxDelta, 60, 64), NoteOn(0, 64, 64),
     NoteOn(0, 70, 64), NoteOn(0, 64, 0), NoteOff(1, 64), SetTempo(1, 250000)}

InitNotes ==
    /\ pc = "start"
    /\ IsStreamOf(NoteMessages)
    /\ tempo_map = <<>>
    /\ ticks_per_beat = MaxPPQN
    /\ tick = 0
    /\ seconds = NoFraction
    /\ time_beats = NoFraction
    /\ NoNotes
    /\ NoConversion
    /\ NoBatch
    /\ NoApp

\* convert_to_beatsaber, lines 399-404, with both reads of the file
\* succeeding
ParseNotes ==
    /\ pc = "start"
    /\ tempo_map' = _get_tempo_map(mid)
    /\ all_raw_bs_notes' = _parse_midi_notes(mid, tempo_map', ticks_per_beat,
                                             _get_dominant_bpm(tempo_map'))
    /\ pc' = "parsed"
    /\ UNCHANGED <<mid, ticks_per_beat, tick, seconds, time_beats, final_bs_notes,
                   final_bs_notes_again, convVars, batchVars, appVars>>

\* convert_to_beatsaber, line 462
FinalizeNotes ==
    /\ pc = "parsed"
    /\ final_bs_notes' = _map_notes_to_beatsaber_format(all_raw_bs_notes)
    /\ pc' = "finalized"
    /\ UNCHANGED <<timeVars, all_raw_bs_notes, final_bs_notes_again, convVars, batchVars, appVars>>

NextNotes == ParseNotes \/ FinalizeNotes

SpecNotes == InitNotes /\ [][NextNotes]_vars

----------------------------------------------------------------------------
(* AppConfig and the tier selection of Converter.convert_to_beatsaber *)

\* The default "difficulty_mapping" of AppConfig._load_config
DefaultMapping ==
    [k \in {"0", "1", "2", "3", "4", "5", "6"} |->
        CASE k \in {"0", "1"} -> "Easy"
          [] k = "2" -> "Normal"
          [] k = "3" -> "Hard"
          [] k \in {"4", "5"} -> "Expert"
          [] k = "6" -> "Expert+"]

\* A table with the one entry 4 -> Expert
ExpertOnlyMapping == [k \in {"4"} |-> "Expert"]

Mappings == {DefaultMapping, ExpertOnlyMapping, <<>>}

\* The numeric difficulties of generated metadata
RawNumbers == {0, 3, 4, 5, 6, 99}

\* str(ch_numeric_diff_val)
Str(n) ==
    CASE n = 0 -> "0" [] n = 1 -> "1" [] n = 2 -> "2" [] n = 3 -> "3"
      [] n = 4 -> "4" [] n = 5 -> "5" [] n = 6 -> "6" [] n = 99 -> "99"

\* Keys of metadata.difficulties, in the order the extractor inserts them
DiffKeys == <<"diff_guitar", "diff_bass", "diff_drums">>

\* The items of every dict over the keys from the i-th on
RECURSIVE ItemsFrom(_)
ItemsFrom(i) ==
    IF i > Len(DiffKeys) THEN {<<>>}
    ELSE LET rest == ItemsFrom(i + 1)
         IN  rest \cup {<<<<DiffKeys[i], v>>>> \o r : v \in RawNumbers, r \in rest}

\* ch_to_bs_difficulty_map.get(str(ch_numeric_diff_val), None); None is ""
Get(mapping, key) == IF key \in DOMAIN mapping THEN mapping[key] ELSE ""

NoMappingWarning(item) == [kind |-> "no_difficulty_mapping", key |-> item[1], value |-> item[2]]

\* The turn that adds what the lookup returned, mapped or not
DifficultyStepNoTest(acc, item, mapping) ==
    [tiers |-> acc.tiers \cup {Get(mapping, Str(item[2]))}, warnings |-> acc.warnings]

\* One turn of the loop of step 5 on the pair [tiers, warnings]
DifficultyStep(acc, item, mapping) ==
    LET mapped_bs_difficulty == Get(mapping, Str(item[2]))
    IN  IF mapped_bs_difficulty # ""
        THEN [tiers |-> acc.tiers \cup {mapped_bs_difficulty}, warnings |-> acc.warnings]
        ELSE [tiers |-> acc.tiers, warnings |-> Append(acc.warnings, NoMappingWarning(item))]

RECURSIVE DifficultyLoop(_, _, _)
DifficultyLoop(acc, items, mapping) ==
    IF items = <<>> THEN acc
    ELSE DifficultyLoop(DifficultyStep(acc, Head(items), mapping), Tail(items), mapping)

bs_difficulty_levels == <<"Easy", "Normal", "Hard", "Expert", "ExpertPlus">>

Levels == {bs_difficulty_levels[i] : i \in 1..Len(bs_difficulty_levels)}

\* bs_difficulty_levels.index(x)
Index(x) == (CHOOSE i \in 1..Len(bs_difficulty_levels) : bs_difficulty_levels[i] = x) - 1

\* The tiers in descending order of their index
SortedTiersDescending(tiers) ==
    LET n == Len(bs_difficulty_levels)
    IN  SelectSeq([i \in 1..n |-> bs_difficulty_levels[n + 1 - i]], LAMBDA t : t \in tiers)

\* sorted(list(tiers), key=lambda x: bs_difficulty_levels.index(x)), for
\* tiers that are all in the list
SortedTiers(tiers) == SelectSeq(bs_difficulty_levels, LAMBDA t : t \in tiers)

DifficultyFilename(bs_difficulty_name) == <<"Standard", bs_difficulty_name, ".dat">>

\* The summary that always names the standard cover file
_generate_info_dat_standard_cover(audio_filename, cover, bpm) ==
    [_beatsPerMinute |-> RoundDecimals(bpm, 2),
     _songFilename |-> audio_filename,
     _coverImageFilename |-> "cover.jpg",
     _difficultyBeatmapSets |-> <<>>]

\* _generate_info_dat: the fields a later step or the game reads
_generate_info_dat(audio_filename, cover, bpm) ==
    [_beatsPerMinute |-> RoundDecimals(bpm, 2),
     _songFilename |-> audio_filename,
     _coverImageFilename |-> cover,
     _difficultyBeatmapSets |-> <<>>]

StandardSet(beatmaps) ==
    <<[_beatmapCharacteristicName |-> "Standard", _difficultyBeatmaps |-> beatmaps]>>

InfoDatEntry(bs_difficulty_name) ==
    [_difficulty |-> bs_difficulty_name,
     _difficultyRank |-> Index(bs_difficulty_name),
     _beatmapFilename |-> DifficultyFilename(bs_difficulty_name)]

File(name, notes) == [name |-> name, notes |-> notes]

Warning(kind) == [kind |-> kind, key |-> "", value |-> 0]

----------------------------------------------------------------------------
(* The event streams of the conversions *)

\* The MIDI file of the module's example (lines 532-548), 480 ticks per beat
ExampleTrack ==
    <<SetTempo(0, 500000), NoteOn(0, 60, 64), NoteOff(240, 60),
      NoteOn(240, 62, 64), NoteOff(240, 62), SetTempo(480, 333333),
      NoteOn(240, 64, 64), NoteOff(0, 64)>>

\* A file without a mappable note: an unmapped identifier and a note_on of
\* velocity 0
NoNoteTrack == <<SetTempo(0, 250000), NoteOn(1, 70, 64), NoteOn(1, 60, 0)>>

\* Two tracks whose notes 64 and 48 share time, lane and layer
CollidingTracks == <<<<NoteOn(0, 64, 64), NoteOn(1, 61, 64)>>, <<NoteOn(0, 48, 64)>>>>

\* <<tracks, ticks_per_beat>>
MidiFiles == {<<<<ExampleTrack>>, 480>>, <<<<NoNoteTrack>>, 2>>, <<CollidingTracks, 2>>}

----------------------------------------------------------------------------
(* Converter.convert_to_beatsaber *)

Init ==
    /\ pc = "start"
    /\ \E f \in MidiFiles : mid = f[1] /\ ticks_per_beat = f[2]
    /\ tempo_map = <<>>
    /\ tick = 0
    /\ seconds = NoFraction
    /\ time_beats = NoFraction
    /\ NoNotes
    /\ difficulties \in ItemsFrom(1)
    /\ difficulty_mapping \in Mappings
    /\ difficulties_to_generate = {}
    /\ remaining = <<>>
    /\ cover_filename = ""
    /\ info_dat_content = <<>>
    /\ written = <<>>
    /\ made_dir = FALSE
    /\ warnings = <<>>
    /\ errors = <<>>
    /\ result = "none"
    /\ NoBatch
    /\ NoApp

\* return False / return True / an exception leaving the method
Return(value) == pc' = "done" /\ result' = value

\* logger.error(...) once or twice, then return True
FailSilently(kinds) == errors' = errors \o kinds /\ Return("True")

\* logger.error(...) once or twice, then return False
Fail(kinds) == errors' = errors \o kinds /\ Return("False")

\* Step 1 (lines 367-373): mido is installed and notes.mid exists, or not
CheckMidi ==
    /\ pc = "start"
    /\ \E midi_found \in BOOLEAN :
          IF midi_found THEN pc' = "audio" /\ UNCHANGED <<result, errors>>
          ELSE Fail(<<"midi_not_found">>)
    /\ UNCHANGED <<appVars, batchVars, timeVars, noteVars, difficulties, difficulty_mapping,
                   difficulties_to_generate, remaining, cover_filename,
                   info_dat_content, written, made_dir, warnings>>

\* Step 2 without the return of line 379: the failure is logged and the
\* conversion goes on with the cover
ConvertAudioNoAbort ==
    /\ pc = "audio"
    /\ \E outcome \in {"converted", "no_audio", "export_failed"} :
          CASE outcome = "converted" ->
                 /\ made_dir' = TRUE
                 /\ song_output_dir' = output_directory
                 /\ written' = Append(written, File(<<"song.ogg">>, <<>>))
                 /\ UNCHANGED errors
            [] outcome = "no_audio" ->
                 /\ errors' = errors \o <<"no_audio_file", "audio_conversion_failed">>
                 /\ UNCHANGED <<made_dir, written, song_output_dir>>
            [] outcome = "export_failed" ->
                 /\ made_dir' = TRUE
                 /\ song_output_dir' = output_directory
                 /\ errors' = errors \o <<"audio_not_converted", "audio_conversion_failed">>
                 /\ UNCHANGED written
    /\ pc' = "cover"
    /\ UNCHANGED <<uiVars, output_directory, bs_map_output_dir, batchVars, timeVars,
                   noteVars, difficulties, difficulty_mapping,
                   difficulties_to_generate, remaining, cover_filename,
                   info_dat_content, warnings, result>>

\* Step 2 (lines 375-379) with convert_audio (lines 106-154): no usable
\* audio is found before the directory is made, a failed copy or export
\* after it
ConvertAudio ==
    /\ pc = "audio"
    /\ \E outcome \in {"converted", "no_audio", "export_failed"} :
          CASE outcome = "converted" ->
                 /\ made_dir' = TRUE
                 /\ song_output_dir' = output_directory
                 /\ written' = Append(written, File(<<"song.ogg">>, <<>>))
                 /\ pc' = "cover"
                 /\ UNCHANGED <<result, errors>>
            [] outcome = "no_audio" ->
                 /\ Fail(<<"no_audio_file", "audio_conversion_failed">>)
                 /\ UNCHANGED <<made_dir, written, song_output_dir>>
            [] outcome = "export_failed" ->
                 /\ made_dir' = TRUE
                 /\ song_output_dir' = output_directory
                 /\ Fail(<<"audio_not_converted", "audio_conversion_failed">>)
                 /\ UNCHANGED written
    /\ UNCHANGED <<uiVars, output_directory, bs_map_output_dir, batchVars, timeVars,
                   noteVars, difficulties, difficulty_mapping,
                   difficulties_to_generate, remaining, cover_filename,
                   info_dat_content, warnings>>

\* Step 3 (lines 381-395)
CopyCover ==
    /\ pc = "cover"
    /\ bs_map_output_dir' = output_directory
    /\ made_dir' = TRUE
    /\ \E cover \in {"copied", "copy_failed", "missing"} :
          CASE cover = "copied" ->
                 /\ written' = Append(written, File(<<"cover.jpg">>, <<>>))
                 /\ cover_filename' = "cover.jpg"
                 /\ UNCHANGED warnings
            [] cover = "copy_failed" ->
                 /\ cover_filename' = ""
                 /\ warnings' = Append(warnings, Warning("cover_not_copied"))
                 /\ UNCHANGED written
            [] cover = "missing" ->
                 /\ cover_filename' = ""
                 /\ warnings' = Append(warnings, Warning("no_cover"))
                 /\ UNCHANGED written
    /\ pc' = "parse"
    /\ UNCHANGED <<uiVars, output_directory, song_output_dir, batchVars, timeVars, noteVars,
                   difficulties, difficulty_mapping,
                   difficulties_to_generate, remaining, info_dat_content, errors, result>>

\* Step 4 (lines 397-408): MidiFile(...) raises, or the tempo map, the
\* dominant BPM and the notes are computed; _parse_midi_notes reads the file
\* again and returns [] when that read fails (lines 257-261)
ParseMidi ==
    /\ pc = "parse"
    /\ \E read, read_again \in BOOLEAN :
          IF ~read
          THEN /\ Fail(<<"midi_parsing">>)
               /\ UNCHANGED <<tempo_map, all_raw_bs_notes>>
          ELSE /\ tempo_map' = _get_tempo_map(mid)
               /\ all_raw_bs_notes' =
                      IF read_again
                      THEN _parse_midi_notes(mid, tempo_map', ticks_per_beat,
                                             _get_dominant_bpm(tempo_map'))
                      ELSE <<>>
               /\ errors' = IF read_again THEN errors ELSE Append(errors, "midi_read")
               /\ pc' = IF all_raw_bs_notes' = <<>> THEN "no_notes" ELSE "difficulties"
               /\ UNCHANGED result
    /\ UNCHANGED <<appVars, batchVars, mid, ticks_per_beat, tick, seconds, time_beats, final_bs_notes,
                   final_bs_notes_again, difficulties, difficulty_mapping,
                   difficulties_to_generate, remaining, cover_filename,
                   info_dat_content, written, made_dir, warnings>>

\* Lines 410-424: no notes were parsed, info.dat is written without
\* difficulties
WriteInfoNoNotes ==
    /\ pc = "no_notes"
    /\ warnings' = Append(warnings, Warning("no_mappable_notes"))
    /\ info_dat_content' =
          _generate_info_dat(<<"song.ogg">>, cover_filename, _get_dominant_bpm(tempo_map))
    /\ \E write_ok \in BOOLEAN :
          IF write_ok
          THEN /\ written' = Append(written, File(<<"info.dat">>, <<>>))
               /\ Return("True")
               /\ UNCHANGED errors
          ELSE /\ UNCHANGED written
               /\ Fail(<<"info_dat_write">>)
    /\ UNCHANGED <<appVars, batchVars, timeVars, noteVars, difficulties, difficulty_mapping,
                   difficulties_to_generate, remaining, cover_filename, made_dir>>

\* Step 5, lines 426-439: the loop over metadata.difficulties.items()
MapDifficulties ==
    /\ pc = "difficulties"
    /\ LET looped == DifficultyLoop([tiers |-> {}, warnings |-> warnings],
                                    difficulties, difficulty_mapping)
       IN  /\ difficulties_to_generate' = looped.tiers
           /\ warnings' = looped.warnings
    /\ pc' = "fallback"
    /\ UNCHANGED <<appVars, batchVars, timeVars, noteVars, difficulties, difficulty_mapping, remaining,
                   cover_filename, info_dat_content, written, made_dir, errors, result>>

\* Step 5, lines 441-444, and step 6, lines 446-453
DefaultExpert ==
    /\ pc = "fallback"
    /\ difficulties_to_generate' =
          IF difficulties_to_generate = {} THEN {"Expert"} ELSE difficulties_to_generate
    /\ info_dat_content' =
          [_generate_info_dat(<<"song.ogg">>, cover_filename, _get_dominant_bpm(tempo_map))
              EXCEPT !._difficultyBeatmapSets = StandardSet(<<>>)]
    /\ pc' = "order"
    /\ UNCHANGED <<appVars, batchVars, timeVars, noteVars, difficulties, difficulty_mapping, remaining,
                   cover_filename, written, made_dir, warnings, errors, result>>

\* Line 458: sorted(...) raises ValueError for a tier that is not in
\* bs_difficulty_levels; nothing in the method catches it
OrderTiers ==
    /\ pc = "order"
    /\ IF difficulties_to_generate \subseteq Levels
       THEN /\ remaining' = SortedTiers(difficulties_to_generate)
            /\ pc' = "tiers"
            /\ UNCHANGED result
       ELSE /\ Return("ValueError")
            /\ UNCHANGED remaining
    /\ UNCHANGED <<appVars, batchVars, timeVars, noteVars, difficulties, difficulty_mapping,
                   difficulties_to_generate, cover_filename, info_dat_content,
                   written, made_dir, warnings, errors>>

\* The except branch that logs the failed write and goes on with the next
\* tier
TierWriteFailedContinue ==
    /\ errors' = Append(errors, "difficulty_dat_write")
    /\ remaining' = Tail(remaining)
    /\ UNCHANGED <<pc, result, written, info_dat_content>>

\* Lines 485-487: the write of the difficulty file raised
TierWriteFailed ==
    /\ Fail(<<"difficulty_dat_write">>)
    /\ UNCHANGED <<written, info_dat_content, remaining>>

\* Step 7, lines 458-487: one turn of the loop over the sorted tiers
WriteTier ==
    /\ pc = "tiers"
    /\ remaining # <<>>
    /\ final_bs_notes' = _map_notes_to_beatsaber_format(all_raw_bs_notes)
    /\ \E write_ok \in BOOLEAN :
          IF write_ok
          THEN /\ written' = Append(written, File(DifficultyFilename(Head(remaining)),
                                                  final_bs_notes'))
               /\ info_dat_content' =
                     [info_dat_content EXCEPT !._difficultyBeatmapSets =
                         StandardSet(Append(@[1]._difficultyBeatmaps,
                                            InfoDatEntry(Head(remaining))))]
               /\ remaining' = Tail(remaining)
               /\ UNCHANGED <<pc, result, errors>>
          ELSE TierWriteFailed
    /\ UNCHANGED <<appVars, batchVars, timeVars, all_raw_bs_notes, final_bs_notes_again, difficulties,
                   difficulty_mapping, difficulties_to_generate, cover_filename,
                   made_dir, warnings>>

\* Step 8, lines 489-500
WriteInfo ==
    /\ pc = "tiers"
    /\ remaining = <<>>
    /\ \E write_ok \in BOOLEAN :
          IF write_ok
          THEN /\ written' = Append(written, File(<<"info.dat">>, <<>>))
               /\ Return("True")
               /\ UNCHANGED errors
          ELSE /\ UNCHANGED written
               /\ Fail(<<"info_dat_write">>)
    /\ UNCHANGED <<appVars, batchVars, timeVars, noteVars, difficulties, difficulty_mapping,
                   difficulties_to_generate, remaining, cover_filename,
                   info_dat_content, made_dir, warnings>>

Next ==
    \/ CheckMidi
    \/ ConvertAudio
    \/ CopyCover
    \/ ParseMidi
    \/ WriteInfoNoNotes
    \/ MapDifficulties
    \/ DefaultExpert
    \/ OrderTiers
    \/ WriteTier
    \/ WriteInfo

Spec == Init /\ [][Next]_vars

----------------------------------------------------------------------------
(* AppUI._run_conversion: the batch over the selected ZIP files *)

ZipFiles == 1..MaxZips

\* The selections of n distinct ZIP files, in the order of the file dialog
Selections(n) ==
    {sel \in [1..n -> ZipFiles] : \A a, b \in 1..n : sel[a] = sel[b] => a = b}

\* _start_conversion_thread starts the thread only for a non-empty selection
InitBatch ==
    /\ pc = "loop"
    /\ \E n \in 1..MaxZips : selected_zip_paths \in Selections(n)
    /\ zip_i = 0
    /\ metadata = FALSE
    /\ successful_conversions = 0
    /\ processed = <<>>
    /\ final_status_message = <<>>
    /\ NoTiming
    /\ NoNotes
    /\ NoConversion
    /\ NoDirs
    /\ start_button = "disabled"
    /\ workers = 1
    /\ no_files_warning = FALSE

total_zips == Len(selected_zip_paths)

\* Lines 217-221: the loop takes the next ZIP file
StartPackage ==
    /\ pc = "loop"
    /\ zip_i < total_zips
    /\ metadata' = FALSE
    /\ pc' = "extract"
    /\ UNCHANGED <<selected_zip_paths, zip_i, successful_conversions, processed,
                   final_status_message, timeVars, noteVars, convVars, appVars>>

\* Lines 222-228: extract_and_parse returns a metadata object, returns
\* None (ValueError is raised for it) or raises itself
ExtractAndParse ==
    /\ pc = "extract"
    /\ \E extracted \in {"metadata", "None", "raised"} :
          /\ metadata' = (extracted = "metadata")
          /\ processed' = Append(processed, [zip |-> selected_zip_paths[zip_i + 1],
                                             extracted |-> extracted,
                                             converted |-> "not_called"])
          /\ pc' = IF extracted = "metadata" THEN "convert" ELSE "finally"
    /\ UNCHANGED <<selected_zip_paths, zip_i, successful_conversions,
                   final_status_message, timeVars, noteVars, convVars, appVars>>

\* Lines 230-239: convert_to_beatsaber returns True, returns False
\* (ValueError is raised for it) or raises; the except catches both
ConvertToBeatsaber ==
    /\ pc = "convert"
    /\ \E success \in {"True", "False", "raised"} :
          /\ processed' = [processed EXCEPT ![Len(processed)].converted = success]
          /\ successful_conversions' =
                IF success = "True" THEN successful_conversions + 1
                ELSE successful_conversions
    /\ pc' = "finally"
    /\ UNCHANGED <<selected_zip_paths, zip_i, metadata, final_status_message,
                   timeVars, noteVars, convVars, appVars>>

\* Lines 240-243: the finally clause.  With a metadata object
\* cleanup_temp_files runs shutil.rmtree on the temporary directory
\* (or keeps it, by configuration); an exception of rmtree is raised inside
\* the finally clause and leaves _run_conversion, which ends the thread
Finally ==
    /\ pc = "finally"
    /\ \E cleanup \in IF metadata THEN {"removed", "kept", "raised"} ELSE {"not_called"} :
          IF cleanup = "raised"
          THEN pc' = "raised" /\ workers' = workers - 1 /\ UNCHANGED zip_i
          ELSE pc' = "loop" /\ zip_i' = zip_i + 1 /\ UNCHANGED workers
    /\ UNCHANGED <<selected_zip_paths, metadata, successful_conversions, processed,
                   final_status_message, timeVars, noteVars, convVars, dirVars,
                   start_button, no_files_warning>>

\* Lines 246-256: the final message after the loop; the start button is
\* enabled again and the thread ends
FinalStatus ==
    /\ pc = "loop"
    /\ zip_i = total_zips
    /\ final_status_message' = <<successful_conversions, total_zips>>
    /\ start_button' = "normal"
    /\ workers' = workers - 1
    /\ pc' = "finished"
    /\ UNCHANGED <<selected_zip_paths, zip_i, metadata, successful_conversions,
                   processed, timeVars, noteVars, convVars, dirVars, no_files_warning>>

NextBatch ==
    \/ StartPackage
    \/ ExtractAndParse
    \/ ConvertToBeatsaber
    \/ Finally
    \/ FinalStatus

SpecBatch == InitBatch /\ [][NextBatch]_vars

----------------------------------------------------------------------------
(* The window: AppUI._browse_zips, _start_conversion_thread and the thread *)

\* The window as constructed (line 48: no selection), the button enabled
InitUI ==
    /\ pc = "idle"
    /\ NoBatch
    /\ NoTiming
    /\ NoNotes
    /\ NoConversion
    /\ NoApp

\* _browse_zips (lines 152-162): a non-empty choice of the file dialog
\* replaces the selection.  Only the choices made before the first start
\* request are followed: the thread iterates the list that was bound when
\* its loop started, and a later request converts the selection again.
BrowseZips ==
    /\ pc = "idle"
    /\ \E n \in 1..MaxZips : selected_zip_paths' \in Selections(n)
    /\ UNCHANGED <<pc, zip_i, metadata, successful_conversions, processed,
                   final_status_message, timeVars, noteVars, convVars, appVars>>

\* The handler that starts the thread and leaves the button as it is
StartRequestButtonStaysEnabled ==
    /\ start_button = "normal"
    /\ IF selected_zip_paths = <<>>
       THEN /\ no_files_warning' = TRUE
            /\ UNCHANGED <<pc, batchVars, dirVars, start_button, workers>>
       ELSE /\ \E new_output_dir \in Dirs : output_directory' = new_output_dir
            /\ workers' = workers + 1
            /\ pc' = "loop"
            /\ zip_i' = 0
            /\ metadata' = FALSE
            /\ successful_conversions' = 0
            /\ processed' = <<>>
            /\ final_status_message' = <<>>
            /\ UNCHANGED <<selected_zip_paths, song_output_dir, bs_map_output_dir,
                           start_button, no_files_warning>>
    /\ UNCHANGED <<timeVars, noteVars, convVars>>

\* _start_conversion_thread (lines 195-210), the command of the start
\* button, which runs for an enabled button only: without a selection the
\* warning is shown and nothing else happens; with one the button is
\* disabled, _save_settings stores the directory of the entry field and
\* the thread is started with the locals of _run_conversion (lines 214-215)
StartRequest ==
    /\ start_button = "normal"
    /\ IF selected_zip_paths = <<>>
       THEN /\ no_files_warning' = TRUE
            /\ UNCHANGED <<pc, batchVars, dirVars, start_button, workers>>
       ELSE /\ start_button' = "disabled"
            /\ \E new_output_dir \in Dirs : output_directory' = new_output_dir
            /\ workers' = workers + 1
            /\ pc' = "loop"
            /\ zip_i' = 0
            /\ metadata' = FALSE
            /\ successful_conversions' = 0
            /\ processed' = <<>>
            /\ final_status_message' = <<>>
            /\ UNCHANGED <<selected_zip_paths, song_output_dir, bs_map_output_dir,
                           no_files_warning>>
    /\ UNCHANGED <<timeVars, noteVars, convVars>>

NextUI ==
    \/ BrowseZips
    \/ StartRequest
    \/ StartPackage
    \/ ExtractAndParse
    \/ ConvertToBeatsaber
    \/ Finally
    \/ FinalStatus

SpecUI == InitUI /\ [][NextUI]_vars

----------------------------------------------------------------------------
(* One conversion while the window changes the output directory *)

\* The example file with the default table and one difficulty
InitDirs ==
    /\ Init
    /\ mid = <<ExampleTrack>>
    /\ difficulty_mapping = DefaultMapping

\* _browse_output_dir (lines 180-186) with set_setting (config.py lines
\* 44-46), on the window's thread: a directory chosen in the dialog becomes
\* the setting at once; a cancelled dialog changes nothing
BrowseOutputDir ==
    /\ \E output_dir \in Dirs : output_directory' = output_dir
    /\ UNCHANGED <<pc, timeVars, noteVars, convVars, batchVars, song_output_dir,
                   bs_map_output_dir, uiVars>>

NextDirs ==
    \/ BrowseOutputDir
    \/ CheckMidi
    \/ ConvertAudio
    \/ CopyCover
    \/ ParseMidi
    \/ WriteInfoNoNotes
    \/ MapDifficulties
    \/ DefaultExpert
    \/ OrderTiers
    \/ WriteTier
    \/ WriteInfo

SpecDirs == InitDirs /\ [][NextDirs]_vars

----------------------------------------------------------------------------
(* Properties of the tempo map *)

StrictlyIncreasingTicks(tm) == \A i \in 1..(Len(tm) - 1) : tm[i][1] < tm[i + 1][1]

NoAdjacentEqualTempo(tm) == \A i \in 1..(Len(tm) - 1) : tm[i][2] # tm[i + 1][2]

\* C1: for every event stream the tempo map returned by _get_tempo_map is
\* non-empty, its first entry is at tick 0 and its ticks strictly increase.
C1_TempoMapShape ==
    pc = "tempo_map" =>
        /\ Len(tempo_map) >= 1
        /\ tempo_map[1][1] = 0
        /\ StrictlyIncreasingTicks(tempo_map)

\* A two-track stream whose three tempo changes include two on one tick.
C1_Witness ==
    /\ pc = "tempo_map"
    /\ Len(mid) = 2
    /\ \A t \in 1..2 : mid[t] # <<>>
    /\ Len(AllTempoEvents(mid)) = 3
    /\ \E i, j \in 1..3 : i # j /\ AllTempoEvents(mid)[i][1] = AllTempoEvents(mid)[j][1]
    /\ Len(tempo_map) = 2

\* C2: no two adjacent entries of the tempo map returned by _get_tempo_map
\* carry the same microseconds-per-beat value, also when several tempo
\* changes fall on the same tick.
C2_NoAdjacentEqualTempo == pc = "tempo_map" => NoAdjacentEqualTempo(tempo_map)

----------------------------------------------------------------------------
(* Properties of the time converter *)

\* a <= b for two fractions over the same denominator
FracLeqSameDen(a, b) == a.den = b.den /\ a.num <= b.num

\* C3: _ticks_to_seconds is non-decreasing in the tick: the elapsed time of
\* every tick t <= tick is not larger than the elapsed time of tick, for
\* every valid tempo map and positive ticks_per_beat.
C3_Monotonic ==
    pc = "placed" =>
        \A t \in TimeTicks :
            t <= tick =>
                FracLeqSameDen(_ticks_to_seconds(t, tempo_map, ticks_per_beat), seconds)

\* The tick lies in a later segment than a smaller tick with less elapsed time.
C3_Witness ==
    /\ pc = "placed"
    /\ Len(tempo_map) >= 3
    /\ tick >= tempo_map[3][1]
    /\ \E t \in TimeTicks :
          /\ t > 0 /\ t < tempo_map[2][1]
          /\ _ticks_to_seconds(t, tempo_map, ticks_per_beat).num < seconds.num

\* C4: for every valid tempo map and positive ticks_per_beat,
\* _ticks_to_seconds of tick 0 is exactly 0.
C4_TickZero == (pc = "placed" /\ tick = 0) => seconds.num = 0

\* Tick 0 under a map of several entries whose tick-0 tempo is not the default.
C4_Witness ==
    /\ pc = "placed"
    /\ tick = 0
    /\ Len(tempo_map) >= 2
    /\ tempo_map[1][2] # DefaultTempo
    /\ seconds.num = 0

Max(a, b) == IF a >= b THEN a ELSE b

Min(a, b) == IF a <= b THEN a ELSE b

\* The number of ticks of [0, t) lying in the i-th segment of the map; the
\* last segment has no end.
TicksOfSegment(t, tm, i) ==
    LET from == tm[i][1]
        to == IF i < Len(tm) THEN Min(t, tm[i + 1][1]) ELSE t
    IN  Max(0, to - from)

RECURSIVE SegmentSumTo(_, _, _)
SegmentSumTo(t, tm, n) ==
    IF n = 0 THEN 0
    ELSE SegmentSumTo(t, tm, n - 1) + TicksOfSegment(t, tm, n) * tm[n][2]

\* Map [(0, 500000)], ticks_per_beat 480, tick 240
Scenario1 ==
    /\ pc = "placed"
    /\ tempo_map = <<<<0, 500000>>>>
    /\ ticks_per_beat = 480
    /\ tick = 240

\* C5: _ticks_to_seconds returns the sum over the map's segments of
\* (ticks of [0, tick) in the segment / ticks_per_beat) * (tempo / 10^6),
\* the last tempo applying to every tick at or beyond its entry; in
\* scenario 1 that is 0.25 s, which is 0.5 beats.
C5_SegmentSum ==
    pc = "placed" =>
        /\ seconds = [num |-> SegmentSumTo(tick, tempo_map, Len(tempo_map)),
                      den |-> ticks_per_beat * 1000000]
        /\ Scenario1 => /\ seconds.num * 4 = seconds.den
                        /\ time_beats.num * 2 = time_beats.den

\* A tick beyond the last entry of a map of several entries: extrapolation.
C5_Witness ==
    /\ pc = "placed"
    /\ Len(tempo_map) >= 2
    /\ tick > Last(tempo_map)[1]
    /\ tempo_map[1][2] # Last(tempo_map)[2]
    /\ seconds.num > 0

\* Map [(0, 500000), (480, 333333)], ticks_per_beat 480, tick 720
Scenario2 ==
    /\ pc = "placed"
    /\ tempo_map = <<<<0, 500000>>, <<480, 333333>>>>
    /\ ticks_per_beat = 480
    /\ tick = 720

\* The seconds of the first 480 ticks and of the remaining 240, in 10^-4 s
FirstPart == FloorDecimals(_ticks_to_seconds(480, tempo_map, ticks_per_beat), 4)

RestPart ==
    FloorDecimals([num |-> seconds.num
                           - _ticks_to_seconds(480, tempo_map, ticks_per_beat).num,
                   den |-> seconds.den], 4)

\* C6 as stated: in scenario 2 the note at tick 720 gets 0.5 s plus 0.1333 s,
\* about 0.6333 s, and is placed at about 1.2667 beats.
C6_AsStated ==
    Scenario2 =>
        /\ FirstPart = 5000
        /\ RestPart \in {1332, 1333}
        /\ FloorDecimals(seconds, 4) \in {6332, 6333}
        /\ FloorDecimals(time_beats, 4) \in {12666, 12667}

\* C6 amended: in scenario 2 the note at tick 720 gets 0.5 s for the first
\* 480 ticks plus 0.1667 s for the remaining 240 ticks (half a beat at
\* 333333 us per beat), about 0.6667 s, and is placed at about 1.3333 beats.
C6_Scenario2 ==
    Scenario2 =>
        /\ FirstPart = 5000
        /\ RestPart \in {1666, 1667}
        /\ FloorDecimals(seconds, 4) \in {6666, 6667}
        /\ FloorDecimals(time_beats, 4) \in {13333, 13334}

C6_Witness == Scenario2 /\ seconds.num > 0

----------------------------------------------------------------------------
(* Properties of the note finalizer *)

FinalKey(final_note) == <<final_note._time, final_note._lineIndex, final_note._lineLayer>>

Finalized == pc \in {"finalized", "refinalized"}

\* C7: the list returned by _map_notes_to_beatsaber_format contains no two
\* notes with the same (time rounded to 3 decimals, _lineIndex, _lineLayer).
C7_UniqueKeys ==
    Finalized =>
        \A i, j \in 1..Len(final_bs_notes) :
            i # j => FinalKey(final_bs_notes[i]) # FinalKey(final_bs_notes[j])

\* Two candidates of different raw times collided after rounding.
C7_Witness ==
    /\ pc = "finalized"
    /\ Len(all_raw_bs_notes) = 3
    /\ Len(final_bs_notes) = 2
    /\ \E i, j \in 1..3 :
          /\ i < j
          /\ all_raw_bs_notes[i]._time_raw_beats # all_raw_bs_notes[j]._time_raw_beats
          /\ NotePositionKey(all_raw_bs_notes[i]) = NotePositionKey(all_raw_bs_notes[j])

\* The candidate at index i is the first of the list to carry its key.
FirstOfKey(notes, i) ==
    \A j \in 1..(i - 1) :
        <<Round3(notes[j]._time_raw_beats), notes[j]._lineIndex, notes[j]._lineLayer>>
            # <<Round3(notes[i]._time_raw_beats), notes[i]._lineIndex, notes[i]._lineLayer>>

\* The indices of the first occurrences, ascending
FirstIndices(notes) ==
    SelectSeq([i \in 1..Len(notes) |-> i], LAMBDA i : FirstOfKey(notes, i))

\* The first occurrences as final notes, in input order
FirstOccurrences(notes) ==
    LET idx == FirstIndices(notes)
    IN  [k \in 1..Len(idx) |->
            [_time |-> Round3(notes[idx[k]]._time_raw_beats),
             _lineIndex |-> notes[idx[k]]._lineIndex,
             _lineLayer |-> notes[idx[k]]._lineLayer,
             _type |-> notes[idx[k]]._type_hint,
             _cutDirection |-> 0]]

\* C8: the finalizer is first-wins and order-preserving: its output is
\* exactly the subsequence of the candidates that are the first in input
\* order to carry their (rounded time, lane, layer) key, in input order.
C8_FirstWins == Finalized => final_bs_notes = FirstOccurrences(all_raw_bs_notes)

\* A later candidate of another note identifier was discarded for an earlier
\* one, and a candidate between the two was kept.
C8_Witness ==
    /\ pc = "finalized"
    /\ Len(all_raw_bs_notes) = 3
    /\ Len(final_bs_notes) = 2
    /\ all_raw_bs_notes[1]._midi_note # all_raw_bs_notes[3]._midi_note
    /\ NotePositionKey(all_raw_bs_notes[1]) = NotePositionKey(all_raw_bs_notes[3])
    /\ final_bs_notes[2] = FinalNote(all_raw_bs_notes[2])

\* C9: the finalizer is idempotent: applied to the list it produced, read
\* back as candidates, it yields that list unchanged.
C9_Idempotent == pc = "refinalized" => final_bs_notes_again = final_bs_notes

\* The second run followed a first run that had discarded a candidate.
C9_Witness ==
    /\ pc = "refinalized"
    /\ Len(all_raw_bs_notes) = 3
    /\ Len(final_bs_notes) = 2
    /\ final_bs_notes[1]._time # final_bs_notes[2]._time
    /\ Len(final_bs_notes_again) = 2

----------------------------------------------------------------------------
(* Properties of the tier selection *)

\* The table values of the raw numbers that have a table entry
MappedTiers ==
    {difficulty_mapping[Str(difficulties[i][2])] :
        i \in {j \in 1..Len(difficulties) : Str(difficulties[j][2]) \in DOMAIN difficulty_mapping}}

\* The items whose raw number has no table entry, in dict order
UnmappedItems ==
    SelectSeq(difficulties, LAMBDA item : Str(item[2]) \notin DOMAIN difficulty_mapping)

MappingWarnings == SelectSeq(warnings, LAMBDA w : w.kind = "no_difficulty_mapping")

\* The difficulties {guitar: 4, bass: 99} under the table 4 -> Expert
Scenario4 ==
    /\ difficulties = <<<<"diff_guitar", 4>>, <<"diff_bass", 99>>>>
    /\ difficulty_mapping = ExpertOnlyMapping

\* C10: when the loop over the difficulties has run, the set of tiers to
\* generate is exactly the set of table values of the raw numbers that have
\* a table entry (so instruments with the same tier count once), each raw
\* number without an entry has left one warning and nothing else, and the
\* conversion has not failed; a non-empty set is still that set when the
\* tiers are ordered and written. {guitar: 4, bass: 99} with 4 -> Expert
\* gives {Expert} and one warning, about bass.
C10_TierSet ==
    /\ pc = "fallback" =>
          /\ difficulties_to_generate = MappedTiers
          /\ MappingWarnings =
                [i \in 1..Len(UnmappedItems) |-> NoMappingWarning(UnmappedItems[i])]
          /\ result = "none"
          /\ Scenario4 =>
                /\ difficulties_to_generate = {"Expert"}
                /\ MappingWarnings = <<NoMappingWarning(<<"diff_bass", 99>>)>>
    /\ (pc \in {"order", "tiers"} /\ MappedTiers # {}) =>
          difficulties_to_generate = MappedTiers

\* The loop has run on {guitar: 4, bass: 99} with 4 -> Expert
C10_Witness ==
    /\ pc = "fallback"
    /\ Scenario4
    /\ difficulties_to_generate = {"Expert"}
    /\ Len(MappingWarnings) = 1

----------------------------------------------------------------------------
(* Properties of the assembled map *)

IsTierFile(f) == f.name[1] = "Standard"

\* The difficulty files written so far, in the order they were written
TierFiles == SelectSeq(written, LAMBDA f : IsTierFile(f))

TierFileNames == [i \in 1..Len(TierFiles) |-> TierFiles[i].name]

InfoDatWritten == \E i \in 1..Len(written) : written[i].name = <<"info.dat">>

\* The difficulty records the summary references
Beatmaps ==
    IF info_dat_content = <<>> \/ info_dat_content._difficultyBeatmapSets = <<>>
    THEN <<>>
    ELSE info_dat_content._difficultyBeatmapSets[1]._difficultyBeatmaps

Succeeded == pc = "done" /\ result = "True"

\* C11 (as stated): a conversion that succeeded although no raw number has a
\* table entry (among them every conversion with an empty difficulties map)
\* has written exactly one difficulty file, StandardExpert.dat, and its
\* summary references exactly that one Expert record.
C11_ExpertFallback ==
    (Succeeded /\ MappedTiers = {}) =>
        /\ difficulties_to_generate = {"Expert"}
        /\ TierFileNames = <<DifficultyFilename("Expert")>>
        /\ Beatmaps = <<InfoDatEntry("Expert")>>

\* The fixed tier ranking as the default table names its tiers
TierRanking == <<"Easy", "Normal", "Hard", "Expert", "Expert+">>

\* One record per tier of the set, ascending in TierRanking, with the
\* tier's position as its rank index
RankedRecords(tiers) ==
    LET ranks == SelectSeq([i \in 1..Len(TierRanking) |-> i],
                           LAMBDA i : TierRanking[i] \in tiers)
    IN  [k \in 1..Len(ranks) |->
            [_difficulty |-> TierRanking[ranks[k]],
             _difficultyRank |-> ranks[k] - 1,
             _beatmapFilename |-> DifficultyFilename(TierRanking[ranks[k]])]]

\* Every raw number is a key 0..6 of the default table, which is the table
DefaultTableKeysOnly ==
    /\ difficulty_mapping = DefaultMapping
    /\ difficulties # <<>>
    /\ \A i \in 1..Len(difficulties) : difficulties[i][2] \in 0..6

\* C12 (as stated): when every raw number is a key 0..6 of the default
\* table, a conversion with notes that ended without a logged error has
\* succeeded and its summary holds exactly one record per translated tier,
\* ascending in the ranking Easy < Normal < Hard < Expert < Expert+, each
\* with the tier's position as rank index.
C12_OneRecordPerTier ==
    (DefaultTableKeysOnly /\ pc = "done" /\ all_raw_bs_notes # <<>> /\ errors = <<>>) =>
        /\ result = "True"
        /\ Beatmaps = RankedRecords(MappedTiers)

\* C13: every difficulty file written in one conversion holds the same note
\* list as the first one written, which is the finalized list of all the
\* candidates and is not empty: no later tier loses notes to the positions
\* an earlier tier placed.
C13_SameNotesPerTier ==
    \A k \in 1..Len(TierFiles) :
        /\ TierFiles[k].notes = TierFiles[1].notes
        /\ TierFiles[k].notes = _map_notes_to_beatsaber_format(all_raw_bs_notes)
        /\ TierFiles[k].notes # <<>>

\* Two tiers were written from candidates of which one collided
C13_Witness ==
    /\ Len(TierFiles) = 2
    /\ TierFiles[1].name # TierFiles[2].name
    /\ Len(TierFiles[2].notes) = 2
    /\ Len(all_raw_bs_notes) = 3

TierWriteHasFailed == \E i \in 1..Len(errors) : errors[i] = "difficulty_dat_write"

\* C14: once the write of a difficulty file has failed, the conversion has
\* returned False; the difficulty files on disk are those of the tiers
\* ranked before the failed one, each with the full finalized list and a
\* record in the summary structure; the failed tier and the tiers after it
\* have no file (a file is on disk when its write completed); info.dat has
\* not been written.
C14_TierWriteFailure ==
    TierWriteHasFailed =>
        /\ pc = "done"
        /\ result = "False"
        /\ remaining # <<>>
        /\ TierFileNames \o [i \in 1..Len(remaining) |-> DifficultyFilename(remaining[i])]
              = [i \in 1..Len(SortedTiers(difficulties_to_generate)) |->
                    DifficultyFilename(SortedTiers(difficulties_to_generate)[i])]
        /\ \A k \in 1..Len(TierFiles) :
              TierFiles[k].notes = _map_notes_to_beatsaber_format(all_raw_bs_notes)
        /\ Len(Beatmaps) = Len(TierFiles)
        /\ ~InfoDatWritten

\* The write of the second of three tiers failed
C14_Witness ==
    /\ TierWriteHasFailed
    /\ Len(TierFiles) = 1
    /\ Len(remaining) = 2
    /\ result = "False"

NoMappableNotes == \E i \in 1..Len(warnings) : warnings[i].kind = "no_mappable_notes"

MidiReadHasFailed ==
    \E i \in 1..Len(errors) : errors[i] \in {"midi_parsing", "midi_read"}

\* C15 (as stated): a conversion that read its event stream and found in it
\* no note_on mapping to a target note has ended with False.
C15_NoNotesIsFatal ==
    (pc = "done" /\ NoMappableNotes /\ ~MidiReadHasFailed) => result = "False"

\* C16 (as stated): a conversion in which a read of notes.mid failed, the
\* one of line 399 or the one of line 258, has ended with False.
C16_ReadFailureIsFatal ==
    (pc = "done" /\ MidiReadHasFailed) => result = "False"

\* The cover image was missing or could not be copied
CoverWarned ==
    \E i \in 1..Len(warnings) : warnings[i].kind \in {"no_cover", "cover_not_copied"}

CoverWritten == \E i \in 1..Len(written) : written[i].name = <<"cover.jpg">>

\* C17: after a missing cover image or a failed copy of it a warning is
\* recorded, the conversion goes on to the MIDI parse without a result,
\* no cover file is on disk, every summary built names the empty cover
\* filename, and a later False comes with a logged MIDI or write error,
\* never from the cover.
C17_CoverIsOptional ==
    /\ pc \in {"parse", "no_notes", "difficulties", "fallback", "order", "tiers"} =>
          /\ result = "none"
          /\ CoverWarned \/ CoverWritten
    /\ CoverWarned =>
          /\ cover_filename = ""
          /\ ~CoverWritten
          /\ info_dat_content # <<>> => info_dat_content._coverImageFilename = ""
          /\ result = "False" =>
                errors # <<>> /\ Last(errors) \in {"midi_parsing", "info_dat_write",
                                                    "difficulty_dat_write"}

\* A conversion without cover went through every stage and succeeded
C17_Witness ==
    /\ CoverWarned
    /\ Succeeded
    /\ Len(Beatmaps) = 2
    /\ InfoDatWritten
    /\ info_dat_content._coverImageFilename = ""

----------------------------------------------------------------------------
(* Properties of the batch *)

\* _run_conversion is over: it returned or an exception left it
BatchEnded == pc \in {"finished", "raised"}

ProcessedZips == [k \in 1..Len(processed) |-> processed[k].zip]

\* The number of packages whose extraction and conversion both succeeded
BothSucceeded ==
    Cardinality({k \in 1..Len(processed) :
                    processed[k].extracted = "metadata" /\ processed[k].converted = "True"})

\* C18 (as stated): when _run_conversion is over, the packages the loop
\* took are the selected ones, each once and in order, whatever failed on
\* the way, and the final message reports as successful the number of
\* packages whose extraction and conversion both succeeded.
C18_EveryPackageOnce ==
    BatchEnded =>
        /\ ProcessedZips = selected_zip_paths
        /\ final_status_message = <<BothSucceeded, total_zips>>

----------------------------------------------------------------------------
(* Properties of same-tick tempo changes *)

\* The tempo changes of the stream on absolute tick t, in encounter order
\* (track by track, message by message)
EventsAtTick(m, t) == SelectSeq(AllTempoEvents(m), LAMBDA e : e[1] = t)

\* C19 (as stated): every entry of the tempo map at a tick with tempo
\* changes carries the tempo of the last change on that tick in encounter
\* order, and the entry at tick 0 is the default 500000 when the stream has
\* no tempo change on tick 0.
C19_LastOnTickWins ==
    pc = "tempo_map" =>
        \A k \in 1..Len(tempo_map) :
            LET events == EventsAtTick(mid, tempo_map[k][1])
            IN  IF events = <<>>
                THEN tempo_map[k] = <<0, DefaultTempo>>
                ELSE tempo_map[k][2] = Last(events)[2]

\* The same for the entry at tick 0 alone
TickZeroLastWins ==
    pc = "tempo_map" =>
        LET events == EventsAtTick(mid, 0)
        IN  tempo_map[1] = <<0, IF events = <<>> THEN DefaultTempo ELSE Last(events)[2]>>

----------------------------------------------------------------------------
(* Properties of the beat time *)

\* A fraction in lowest terms
Reduced(a) ==
    LET g == GCD(a.num, a.den)
    IN  [num |-> a.num \div g, den |-> a.den \div g]

\* seconds * (60 * 10^6 / tempo) / 60 for seconds over ticks_per_beat * 10^6
BeatsAtTempo(secs, tempo) == [num |-> secs.num, den |-> (secs.den \div 1000000) * tempo]

----------------------------------------------------------------------------
(* Properties of the note mapper *)

\* The note-activate events that hit the table: <<track, message>> indices
Hits ==
    UNION {{<<t, j>> : j \in {k \in 1..Len(mid[t]) :
                                /\ mid[t][k].type = "note_on"
                                /\ mid[t][k].velocity > 0
                                /\ mid[t][k].note \in DOMAIN CH_TO_BS_NOTE_MAP}} :
           t \in 1..Len(mid)}

\* The beat time of the absolute tick of message j of track t, in lowest
\* terms
HitBeats(t, j) ==
    Reduced(BeatsAtTempo(_ticks_to_seconds(AbsTick(mid[t], j), tempo_map, ticks_per_beat),
                         tempo_map[1][2]))

\* The candidate the table and the tick of a hit call for
HitCandidate(h) ==
    LET note == mid[h[1]][h[2]].note
    IN  [_time_raw_beats |-> HitBeats(h[1], h[2]),
         _midi_note |-> note,
         _lineIndex |-> CH_TO_BS_NOTE_MAP[note]._lineIndex,
         _lineLayer |-> CH_TO_BS_NOTE_MAP[note]._lineLayer,
         _type_hint |-> CH_TO_BS_NOTE_MAP[note]._type_hint]

\* A candidate with its beat time in lowest terms
Canonical(c) == [c EXCEPT !._time_raw_beats = Reduced(@)]

Parsed == pc \in {"parsed", "finalized"}

\* C21: the candidate list holds exactly one candidate per note_on with
\* velocity > 0 and an identifier of the table, over all tracks, each with
\* the table's lane, layer and side and the beat time of the event's
\* absolute tick in its own track; nothing else yields a candidate, and
\* the conversion has not failed.
C21_OneCandidatePerHit ==
    Parsed =>
        /\ Len(all_raw_bs_notes) = Cardinality(Hits)
        /\ \A h \in Hits :
              Cardinality({k \in 1..Len(all_raw_bs_notes) :
                              Canonical(all_raw_bs_notes[k]) = HitCandidate(h)})
                = Cardinality({g \in Hits : HitCandidate(g) = HitCandidate(h)})
        /\ result = "none"

\* Two tracks with two hits after tick 0 and with an event that is no hit
C21_Witness ==
    /\ pc = "parsed"
    /\ Len(mid) = 2
    /\ Cardinality(Hits) = 2
    /\ \A h \in Hits : AbsTick(mid[h[1]], h[2]) > 0
    /\ \E t \in 1..2 : \E j \in 1..Len(mid[t]) :
          mid[t][j].type = "note_on" /\ <<t, j>> \notin Hits

\* a < b for two fractions in lowest terms over small denominators
FracLess(a, b) == a.num * b.den < b.num * a.den

\* h comes before g in encounter order: earlier track, or same track and
\* earlier message
Earlier(h, g) == h[1] < g[1] \/ (h[1] = g[1] /\ h[2] < g[2])

\* The place of the candidate of hit h in a stable ascending order
PlaceOf(h) ==
    1 + Cardinality({g \in Hits : FracLess(HitBeats(g[1], g[2]), HitBeats(h[1], h[2]))})
      + Cardinality({g \in Hits : /\ HitBeats(g[1], g[2]) = HitBeats(h[1], h[2])
                                  /\ Earlier(g, h)})

\* C22: the candidate list ascends in beat time, and candidates of equal
\* beat time stand in encounter order: the candidate of every hit is at
\* the place that counts the hits of smaller beat time and the earlier
\* hits of equal beat time.
C22_StableAscending ==
    Parsed =>
        /\ \A k \in 1..(Len(all_raw_bs_notes) - 1) :
              FracLeq(all_raw_bs_notes[k]._time_raw_beats,
                      all_raw_bs_notes[k + 1]._time_raw_beats)
        /\ \A h \in Hits :
              /\ PlaceOf(h) \in 1..Len(all_raw_bs_notes)
              /\ Canonical(all_raw_bs_notes[PlaceOf(h)]) = HitCandidate(h)

\* Two different candidates of equal beat time from two tracks, and a
\* later track's candidate that is sorted before an earlier track's
C22_Witness ==
    /\ pc = "parsed"
    /\ Len(mid) = 2
    /\ \E h, g \in Hits :
          /\ h[1] = 1 /\ g[1] = 2
          /\ HitBeats(h[1], h[2]) = HitBeats(g[1], g[2])
          /\ HitCandidate(h) # HitCandidate(g)
    /\ \E h, g \in Hits : Earlier(h, g) /\ PlaceOf(g) < PlaceOf(h)

----------------------------------------------------------------------------
(* Properties of the outcome of convert_to_beatsaber *)

Ended == pc = "done"

\* C23: the conversion has returned success exactly when info.dat has been
\* written: a conversion that returned False or raised has written no
\* info.dat, one that returned True has, and none is written before the
\* method ends.
C23_SuccessIffInfoDat ==
    /\ (result = "True") <=> InfoDatWritten
    /\ InfoDatWritten => Ended
    /\ Ended => result \in {"True", "False", "ValueError"}

\* A conversion that returned False after its tier files were written, and
\* has no info.dat
C23_Witness ==
    /\ Ended /\ result = "False"
    /\ TierFiles # <<>>
    /\ Last(errors) = "info_dat_write"
    /\ ~InfoDatWritten

\* The descriptors are in ascending rank order
AscendingRanks(beatmaps) ==
    \A k \in 1..(Len(beatmaps) - 1) :
        beatmaps[k]._difficultyRank < beatmaps[k + 1]._difficultyRank

\* C24: info.dat, when written, is the last file written; the descriptors
\* of the summary are at every moment exactly the tier files written so
\* far, one for one, in ascending rank order, each with the file name
\* Standard<tier>.dat and the rank index of its own tier.
C24_DescriptorsAreTierFiles ==
    /\ InfoDatWritten =>
          /\ Last(written).name = <<"info.dat">>
          /\ Cardinality({k \in 1..Len(written) : written[k].name = <<"info.dat">>}) = 1
    /\ [k \in 1..Len(Beatmaps) |-> Beatmaps[k]._beatmapFilename] = TierFileNames
    /\ AscendingRanks(Beatmaps)
    /\ \A k \in 1..Len(Beatmaps) :
          /\ Beatmaps[k]._difficulty \in Levels
          /\ Beatmaps[k]._beatmapFilename = DifficultyFilename(Beatmaps[k]._difficulty)
          /\ Beatmaps[k]._difficultyRank = Index(Beatmaps[k]._difficulty)

\* A successful conversion with three tier files
C24_Witness ==
    /\ Succeeded
    /\ Len(TierFiles) = 3
    /\ InfoDatWritten

Logged(kind) == \E k \in 1..Len(errors) : errors[k] = kind

\* C25: a conversion whose chart file is missing has returned False with
\* that one error, before convert_audio has run and with no directory made
\* and no file written; a conversion whose audio conversion failed has
\* returned False and has written no cover, no tier file and no info.dat.
C25_EarlyFailures ==
    /\ Logged("midi_not_found") =>
          /\ Ended /\ result = "False"
          /\ errors = <<"midi_not_found">>
          /\ ~made_dir
          /\ song_output_dir = 0
          /\ written = <<>>
    /\ Logged("audio_conversion_failed") =>
          /\ Ended /\ result = "False"
          /\ ~CoverWritten
          /\ TierFiles = <<>>
          /\ ~InfoDatWritten

\* The export failed after the output directory was made
C25_Witness ==
    /\ Ended
    /\ Logged("audio_conversion_failed")
    /\ made_dir

----------------------------------------------------------------------------
(* Properties of the table and of the final notes *)

\* Lanes 0 and 1 are side 0, lanes 2 and 3 are side 1
SideOfLane(lineIndex) == IF lineIndex \in {0, 1} THEN 0 ELSE 1

\* Two candidates collide: same rounded time, lane and layer
Collide(c, d) == NotePositionKey(c) = NotePositionKey(d)

C27_FinalNotesAscend ==
    pc = "finalized" =>
        \A k \in 1..(Len(final_bs_notes) - 1) :
            final_bs_notes[k]._time <= final_bs_notes[k + 1]._time

\* Notes of two tracks, the later track's note first in time, and two
\* final notes of different times
C27_Witness ==
    /\ pc = "finalized"
    /\ Len(mid) = 2
    /\ \E h, g \in Hits : Earlier(h, g) /\ PlaceOf(g) < PlaceOf(h)
    /\ Len(final_bs_notes) >= 2
    /\ final_bs_notes[1]._time < final_bs_notes[Len(final_bs_notes)]._time

----------------------------------------------------------------------------
(* Properties of the tempo in effect *)

\* The absolute ticks an event of the stream can have, and one more
StreamTicks == 0..(MaxEvents * MaxDelta + 1)

\* No two tempo changes of the stream are on the same positive tick
NoSharedPositiveTick ==
    \A t \in StreamTicks : t > 0 => Len(EventsAtTick(mid, t)) <= 1

\* The tempo of the last tempo change at or before tick t in (tick,
\* encounter) order, 500000 without one
LastChangeTempo(t) ==
    LET before == SelectSeq(SortByTick(AllTempoEvents(mid)), LAMBDA e : e[1] <= t)
    IN  IF before = <<>> THEN DefaultTempo ELSE Last(before)[2]

\* C28: for a stream in which no two tempo changes share a positive tick,
\* the tempo of the last tempo-map entry at or before any tick t is the
\* tempo of the last tempo change at or before t in (tick, encounter)
\* order, or 500000 when there is none.
C28_TempoInEffect ==
    (pc = "tempo_map" /\ NoSharedPositiveTick) =>
        \A t \in StreamTicks : TempoInEffect(tempo_map, t, 1) = LastChangeTempo(t)

\* A change that repeats the tempo in effect was dropped, a later change
\* back to the default was kept
C28_Witness ==
    /\ pc = "tempo_map"
    /\ NoSharedPositiveTick
    /\ Len(AllTempoEvents(mid)) > Len(tempo_map)
    /\ \E k \in 2..Len(tempo_map) : tempo_map[k][2] = DefaultTempo

----------------------------------------------------------------------------
(* Properties of the window and of the output directory *)

\* The directory a written file was written into: the audio file into the
\* directory of convert_audio (line 128), every other file into the
\* directory of convert_to_beatsaber (lines 388, 416, 467, 490)
DirOf(file) == IF file.name = <<"song.ogg">> THEN song_output_dir ELSE bs_map_output_dir

\* C29 (as stated): all files written by one conversion are in one and the
\* same output directory, whatever the window does to the setting
\* meanwhile.
C29_OneOutputDirectory ==
    \A a, b \in 1..Len(written) : DirOf(written[a]) = DirOf(written[b])

WorkerSteps == {"loop", "extract", "convert", "finally"}

====
